---------------------------- MODULE Spec2Model ----------------------------
(***************************************************************************)
(* mycsv: export of a MySQL result set to a delimited text file.           *)
(*                                                                         *)
(* The model has two layers.                                               *)
(*   - The CSV Writer of csv_writer.go (Writer.Write, Flush, Error) on top  *)
(*     of a bufio.Writer that wraps the destination io.Writer.  Bytes are   *)
(*     naturals, strings are sequences of bytes.                            *)
(*   - The pipeline of mycsv.go: the goroutine readRows (producer), the     *)
(*     main goroutine running writeCSV (consumer), the three unbuffered     *)
(*     channels dataChan, goChan and quitChan, and the SIGINT handler of    *)
(*     catchNotifications.                                                  *)
(***************************************************************************)
EXTENDS Integers, Sequences, FiniteSets, TLC

(***************************************************************************)
(* Bounds of the model.                                                    *)
(***************************************************************************)
\* Largest number of rows in the result set of the query.
MaxRows == 2
\* Capacity of the bufio.Writer (bufio's default is far below flushBufferSize).
BufSize == 4
\* Largest number of destination writes that succeed before the destination fails.
MaxOkCalls == 2

(***************************************************************************)
(* Program constants.                                                      *)
(***************************************************************************)
flushBufferSize == 26214400

NUL == 0
LF == 10
Comma == 44
DQuote == 34
Backslash == 92
CharN == 78
Char0 == 48

Min(a, b) == IF a < b THEN a ELSE b

(***************************************************************************)
(* The destination io.Writer and the bufio.Writer around it.               *)
(* b.buf   bytes accepted and not yet delivered (bufio's buf[0:n])         *)
(* b.err   bufio's sticky error                                            *)
(* b.out   bytes the destination has received                              *)
(* b.left  destination writes that still succeed (-1: it never fails)      *)
(* b.part  bytes the destination takes from a write that fails             *)
(***************************************************************************)
NewBuf(left, part) ==
    [buf |-> <<>>, err |-> FALSE, out |-> <<>>, left |-> left, part |-> part]

Available(b) == BufSize - Len(b.buf)

Buffered(b) == Len(b.buf)

\* Faulty variant: Flush tries the destination again after an error.
BufFlushRetry(b) ==
    IF Len(b.buf) = 0 THEN b
    ELSE IF b.left = 0
         THEN LET n == Min(b.part, Len(b.buf) - 1)
              IN [b EXCEPT !.out = b.out \o SubSeq(b.buf, 1, n),
                           !.buf = SubSeq(b.buf, n + 1, Len(b.buf)),
                           !.err = TRUE]
         ELSE [b EXCEPT !.out = b.out \o b.buf,
                        !.buf = <<>>,
                        !.left = IF b.left > 0 THEN b.left - 1 ELSE b.left]

\* bufio.Writer.Flush: one destination write of the whole pending buffer.
BufFlush(b) ==
    IF b.err THEN b
    ELSE IF Len(b.buf) = 0 THEN b
    ELSE IF b.left = 0
         THEN LET n == Min(b.part, Len(b.buf) - 1)
              IN [b EXCEPT !.out = b.out \o SubSeq(b.buf, 1, n),
                           !.buf = SubSeq(b.buf, n + 1, Len(b.buf)),
                           !.err = TRUE]
         ELSE [b EXCEPT !.out = b.out \o b.buf,
                        !.buf = <<>>,
                        !.left = IF b.left > 0 THEN b.left - 1 ELSE b.left]

\* bufio.Writer.WriteByte.
BufWriteByte(b, ch) ==
    IF b.err THEN b
    ELSE LET b1 == IF Available(b) <= 0 THEN BufFlush(b) ELSE b
         IN IF b1.err THEN b1 ELSE [b1 EXCEPT !.buf = Append(b1.buf, ch)]

\* bufio.Writer.WriteString: fill and flush while the string does not fit.
\* A WriteString that never delivers: the bytes are appended to the buffer
\* whatever its capacity.
BufWriteStringUnbounded(b, s) ==
    IF b.err THEN b ELSE [b EXCEPT !.buf = b.buf \o s]

RECURSIVE BufWriteString(_, _)
BufWriteString(b, s) ==
    IF Len(s) > Available(b) /\ ~b.err
    THEN LET n == Available(b)
             b1 == [b EXCEPT !.buf = b.buf \o SubSeq(s, 1, n)]
         IN BufWriteString(BufFlush(b1), SubSeq(s, n + 1, Len(s)))
    ELSE IF b.err THEN b
    ELSE [b EXCEPT !.buf = b.buf \o s]

(***************************************************************************)
(* Writer of csv_writer.go.  A configuration is the four exported fields;  *)
(* a field of a record is [isNull, bytes] (a nil sql.RawBytes is NULL).    *)
(***************************************************************************)
NewWriterCfg ==
    [Delimiter |-> <<Comma>>, Quote |-> <<DQuote>>,
     Escape |-> <<Backslash>>, Terminator |-> <<LF>>]

Null == [isNull |-> TRUE, bytes |-> <<>>]
Val(s) == [isNull |-> FALSE, bytes |-> s]

\* Go's string(f) of a byte f: the UTF-8 encoding of the code point f.
ByteStr(f) == IF f < 128 THEN <<f>> ELSE <<192 + (f \div 64), 128 + (f % 64)>>

\* Write issues a sequence of calls on the bufio.Writer.  A call is
\* WriteString(s) or WriteByte(s[1]) (WriteRune of an ASCII rune is WriteByte);
\* check says whether Write tests err right after it and returns if it is set.
WS(s, check) == [s |-> s, byte |-> FALSE, check |-> check]
WB(ch, check) == [s |-> <<ch>>, byte |-> TRUE, check |-> check]

\* Faulty variant: a carriage return is escaped as a line feed is.
EscapeByteCarriageReturn(cfg, f) ==
    IF ByteStr(f) = cfg.Delimiter
    THEN IF cfg.Quote = <<>>
         THEN <<WS(cfg.Escape, FALSE), WS(cfg.Delimiter, TRUE)>>
         ELSE <<WS(cfg.Delimiter, TRUE)>>
    ELSE IF ByteStr(f) = cfg.Quote
    THEN <<WS(cfg.Escape, FALSE), WS(cfg.Quote, TRUE)>>
    ELSE IF ByteStr(f) = cfg.Escape
    THEN <<WS(cfg.Escape, FALSE), WS(cfg.Escape, TRUE)>>
    ELSE IF ByteStr(f) = <<NUL>>
    THEN <<WS(cfg.Escape, FALSE), WB(Char0, TRUE)>>
    ELSE IF ByteStr(f) = <<LF>> \/ ByteStr(f) = <<13>>
    THEN <<WS(cfg.Escape, FALSE), WB(f, TRUE)>>
    ELSE <<WB(f, TRUE)>>

\* Faulty variant: a byte equal to Escape is written as it is.
EscapeByteEscapeLiteral(cfg, f) ==
    IF ByteStr(f) = cfg.Delimiter
    THEN IF cfg.Quote = <<>>
         THEN <<WS(cfg.Escape, FALSE), WS(cfg.Delimiter, TRUE)>>
         ELSE <<WS(cfg.Delimiter, TRUE)>>
    ELSE IF ByteStr(f) = cfg.Quote
    THEN <<WS(cfg.Escape, FALSE), WS(cfg.Quote, TRUE)>>
    ELSE IF ByteStr(f) = cfg.Escape
    THEN <<WS(cfg.Escape, TRUE)>>
    ELSE IF ByteStr(f) = <<NUL>>
    THEN <<WS(cfg.Escape, FALSE), WB(Char0, TRUE)>>
    ELSE IF ByteStr(f) = <<LF>>
    THEN <<WS(cfg.Escape, FALSE), WB(f, TRUE)>>
    ELSE <<WB(f, TRUE)>>

\* Faulty variant: a byte equal to Delimiter is escaped inside quotes too.
EscapeByteDelimiterEscaped(cfg, f) ==
    IF ByteStr(f) = cfg.Delimiter
    THEN <<WS(cfg.Escape, FALSE), WS(cfg.Delimiter, TRUE)>>
    ELSE IF ByteStr(f) = cfg.Quote
    THEN <<WS(cfg.Escape, FALSE), WS(cfg.Quote, TRUE)>>
    ELSE IF ByteStr(f) = cfg.Escape
    THEN <<WS(cfg.Escape, FALSE), WS(cfg.Escape, TRUE)>>
    ELSE IF ByteStr(f) = <<NUL>>
    THEN <<WS(cfg.Escape, FALSE), WB(Char0, TRUE)>>
    ELSE IF ByteStr(f) = <<LF>>
    THEN <<WS(cfg.Escape, FALSE), WB(f, TRUE)>>
    ELSE <<WB(f, TRUE)>>

\* Faulty variant: the NUL byte itself is written after the escape.
EscapeByteRawNul(cfg, f) ==
    IF ByteStr(f) = cfg.Delimiter
    THEN IF cfg.Quote = <<>>
         THEN <<WS(cfg.Escape, FALSE), WS(cfg.Delimiter, TRUE)>>
         ELSE <<WS(cfg.Delimiter, TRUE)>>
    ELSE IF ByteStr(f) = cfg.Quote
    THEN <<WS(cfg.Escape, FALSE), WS(cfg.Quote, TRUE)>>
    ELSE IF ByteStr(f) = cfg.Escape
    THEN <<WS(cfg.Escape, FALSE), WS(cfg.Escape, TRUE)>>
    ELSE IF ByteStr(f) = <<NUL>>
    THEN <<WS(cfg.Escape, FALSE), WB(f, TRUE)>>
    ELSE IF ByteStr(f) = <<LF>>
    THEN <<WS(cfg.Escape, FALSE), WB(f, TRUE)>>
    ELSE <<WB(f, TRUE)>>

\* Faulty variant: any other byte is written as the string made of it (two bytes above 127).
EscapeByteRune(cfg, f) ==
    IF ByteStr(f) = cfg.Delimiter
    THEN IF cfg.Quote = <<>>
         THEN <<WS(cfg.Escape, FALSE), WS(cfg.Delimiter, TRUE)>>
         ELSE <<WS(cfg.Delimiter, TRUE)>>
    ELSE IF ByteStr(f) = cfg.Quote
    THEN <<WS(cfg.Escape, FALSE), WS(cfg.Quote, TRUE)>>
    ELSE IF ByteStr(f) = cfg.Escape
    THEN <<WS(cfg.Escape, FALSE), WS(cfg.Escape, TRUE)>>
    ELSE IF ByteStr(f) = <<NUL>>
    THEN <<WS(cfg.Escape, FALSE), WB(Char0, TRUE)>>
    ELSE IF ByteStr(f) = <<LF>>
    THEN <<WS(cfg.Escape, FALSE), WB(f, TRUE)>>
    ELSE <<WS(ByteStr(f), TRUE)>>

\* Faulty variant: a line feed is written as it is.
EscapeByteLineFeedLiteral(cfg, f) ==
    IF ByteStr(f) = cfg.Delimiter
    THEN IF cfg.Quote = <<>>
         THEN <<WS(cfg.Escape, FALSE), WS(cfg.Delimiter, TRUE)>>
         ELSE <<WS(cfg.Delimiter, TRUE)>>
    ELSE IF ByteStr(f) = cfg.Quote
    THEN <<WS(cfg.Escape, FALSE), WS(cfg.Quote, TRUE)>>
    ELSE IF ByteStr(f) = cfg.Escape
    THEN <<WS(cfg.Escape, FALSE), WS(cfg.Escape, TRUE)>>
    ELSE IF ByteStr(f) = <<NUL>>
    THEN <<WS(cfg.Escape, FALSE), WB(Char0, TRUE)>>
    ELSE IF ByteStr(f) = <<LF>>
    THEN <<WB(f, TRUE)>>
    ELSE <<WB(f, TRUE)>>

\* Faulty variant: the case of the escape symbol is tried before the case of
\* the delimiter.
EscapeByteEscapeFirst(cfg, f) ==
    IF ByteStr(f) = cfg.Escape
    THEN <<WS(cfg.Escape, FALSE), WS(cfg.Escape, TRUE)>>
    ELSE IF ByteStr(f) = cfg.Delimiter
    THEN IF cfg.Quote = <<>>
         THEN <<WS(cfg.Escape, FALSE), WS(cfg.Delimiter, TRUE)>>
         ELSE <<WS(cfg.Delimiter, TRUE)>>
    ELSE IF ByteStr(f) = cfg.Quote
    THEN <<WS(cfg.Escape, FALSE), WS(cfg.Quote, TRUE)>>
    ELSE IF ByteStr(f) = <<NUL>>
    THEN <<WS(cfg.Escape, FALSE), WB(Char0, TRUE)>>
    ELSE IF ByteStr(f) = <<LF>>
    THEN <<WS(cfg.Escape, FALSE), WB(f, TRUE)>>
    ELSE <<WB(f, TRUE)>>

\* The switch on one content byte: the first matching case, then the test of err.
EscapeByte(cfg, f) ==
    IF ByteStr(f) = cfg.Delimiter
    THEN IF cfg.Quote = <<>>
         THEN <<WS(cfg.Escape, FALSE), WS(cfg.Delimiter, TRUE)>>
         ELSE <<WS(cfg.Delimiter, TRUE)>>
    ELSE IF ByteStr(f) = cfg.Quote
    THEN <<WS(cfg.Escape, FALSE), WS(cfg.Quote, TRUE)>>
    ELSE IF ByteStr(f) = cfg.Escape
    THEN <<WS(cfg.Escape, FALSE), WS(cfg.Escape, TRUE)>>
    ELSE IF ByteStr(f) = <<NUL>>
    THEN <<WS(cfg.Escape, FALSE), WB(Char0, TRUE)>>
    ELSE IF ByteStr(f) = <<LF>>
    THEN <<WS(cfg.Escape, FALSE), WB(f, TRUE)>>
    ELSE <<WB(f, TRUE)>>

\* The loop over the bytes of one field, from byte i on.
RECURSIVE WriteContent(_, _, _)
WriteContent(cfg, bytes, i) ==
    IF i > Len(bytes) THEN <<>>
    ELSE EscapeByte(cfg, bytes[i]) \o WriteContent(cfg, bytes, i + 1)

\* Faulty variant: the default quote is written when Quote is empty.
WriteQuoteDefault(cfg) ==
    IF cfg.Quote # <<>> THEN <<WS(cfg.Quote, TRUE)>> ELSE <<WS(<<DQuote>>, TRUE)>>

\* The quote written before and after the content of a field, if one is set.
WriteQuote(cfg) == IF cfg.Quote # <<>> THEN <<WS(cfg.Quote, TRUE)>> ELSE <<>>

\* Faulty variant: the NULL marker is a backslash and N whatever Escape is.
WriteFieldBackslashN(cfg, field, n) ==
    (IF n > 1 THEN <<WS(cfg.Delimiter, TRUE)>> ELSE <<>>)
    \o (IF field.isNull
        THEN <<WS(<<Backslash>>, FALSE), WS(<<CharN>>, FALSE)>>
        ELSE WriteQuote(cfg) \o WriteContent(cfg, field.bytes, 1) \o WriteQuote(cfg))

\* Faulty variant: the delimiter is written after every field.
WriteFieldDelimiterAfter(cfg, field, n) ==
    (IF field.isNull
     THEN <<WS(cfg.Escape, FALSE), WS(<<CharN>>, FALSE)>>
     ELSE WriteQuote(cfg) \o WriteContent(cfg, field.bytes, 1) \o WriteQuote(cfg))
    \o <<WS(cfg.Delimiter, TRUE)>>

\* Faulty variant: nothing is written for a field of zero length.
WriteFieldEmptyUnquoted(cfg, field, n) ==
    (IF n > 1 THEN <<WS(cfg.Delimiter, TRUE)>> ELSE <<>>)
    \o (IF field.isNull
        THEN <<WS(cfg.Escape, FALSE), WS(<<CharN>>, FALSE)>>
        ELSE IF field.bytes = <<>> THEN <<>>
        ELSE WriteQuote(cfg) \o WriteContent(cfg, field.bytes, 1) \o WriteQuote(cfg))

\* Faulty variant: a NULL field is written like an empty one.
WriteFieldNullAsEmpty(cfg, field, n) ==
    (IF n > 1 THEN <<WS(cfg.Delimiter, TRUE)>> ELSE <<>>)
    \o (IF field.isNull
        THEN WriteQuote(cfg) \o WriteQuote(cfg)
        ELSE WriteQuote(cfg) \o WriteContent(cfg, field.bytes, 1) \o WriteQuote(cfg))

\* One iteration of the loop over the fields of the record (field n, 1-based).
WriteField(cfg, field, n) ==
    (IF n > 1 THEN <<WS(cfg.Delimiter, TRUE)>> ELSE <<>>)
    \o (IF field.isNull
        THEN <<WS(cfg.Escape, FALSE), WS(<<CharN>>, FALSE)>>
        ELSE WriteQuote(cfg) \o WriteContent(cfg, field.bytes, 1) \o WriteQuote(cfg))

RECURSIVE WriteFields(_, _, _)
WriteFields(cfg, record, n) ==
    IF n > Len(record) THEN <<>>
    ELSE WriteField(cfg, record[n], n) \o WriteFields(cfg, record, n + 1)

\* One call on the bufio.Writer.
BufCall(b, call) ==
    IF call.byte THEN BufWriteByte(b, call.s[1]) ELSE BufWriteString(b, call.s)

\* The calls of Write run in order on the bufio.Writer, from call i on; the
\* result says whether Write returned at a test of err.  (The writer after a
\* call is bound as a value, b1, before the next call uses it.)
RECURSIVE RunCalls(_, _, _)
RunCalls(b, calls, i) ==
    IF i > Len(calls) THEN [b |-> b, returned |-> FALSE]
    ELSE CHOOSE r \in { IF calls[i].check /\ b1.err
                        THEN [b |-> b1, returned |-> TRUE]
                        ELSE RunCalls(b1, calls, i + 1) :
                        b1 \in {BufCall(b, calls[i])} } : TRUE

\* Faulty variant: err is assigned only by the calls that are followed by a test.
WriterWriteErrUnassigned(b, cfg, record) ==
    CHOOSE res \in
        { IF r.returned
          THEN [b |-> r.b, buf |-> 0, err |-> TRUE]
          ELSE [b |-> r.b, buf |-> Buffered(r.b), err |-> FALSE] :
          r \in { RunCalls(b0, calls, 1) :
                  b0 \in {b},
                  calls \in {WriteFields(cfg, record, 1) \o <<WS(cfg.Terminator, FALSE)>>} } } :
        TRUE

\* Faulty variant: buf is the number of bytes this call added to the buffer.
WriterWriteCountsAdded(b, cfg, record) ==
    CHOOSE res \in
        { IF r.returned
          THEN [b |-> r.b, buf |-> 0, err |-> TRUE]
          ELSE [b |-> r.b, buf |-> Buffered(r.b) - Buffered(b), err |-> r.b.err] :
          r \in { RunCalls(b0, calls, 1) :
                  b0 \in {b},
                  calls \in {WriteFields(cfg, record, 1) \o <<WS(cfg.Terminator, FALSE)>>} } } :
        TRUE

\* Faulty variant: the terminator is escaped as the content of a field is.
WriterWriteTerminatorEscaped(b, cfg, record) ==
    CHOOSE res \in
        { IF r.returned
          THEN [b |-> r.b, buf |-> 0, err |-> TRUE]
          ELSE [b |-> r.b, buf |-> Buffered(r.b), err |-> r.b.err] :
          r \in { RunCalls(b0, calls, 1) :
                  b0 \in {b},
                  calls \in {WriteFields(cfg, record, 1)
                             \o WriteContent(cfg, cfg.Terminator, 1)} } } :
        TRUE

\* Writer.Write(record): the new writer, and the results buf and err.
WriterWrite(b, cfg, record) ==
    CHOOSE res \in
        { IF r.returned
          THEN [b |-> r.b, buf |-> 0, err |-> TRUE]
          ELSE [b |-> r.b, buf |-> Buffered(r.b), err |-> r.b.err] :
          r \in { RunCalls(b0, calls, 1) :
                  b0 \in {b},
                  calls \in {WriteFields(cfg, record, 1) \o <<WS(cfg.Terminator, FALSE)>>} } } :
        TRUE

\* Faulty variant: Flush forgets an earlier error and tries the destination again.
WriterFlushRetries(b) == BufFlush([b EXCEPT !.err = FALSE])

\* Writer.Flush.
WriterFlush(b) == BufFlush(b)

\* bufio.Writer.Write: as WriteString, but a write larger than the free space
\* goes straight to the destination while the buffer is empty.
RECURSIVE BufWrite(_, _)
BufWrite(b, p) ==
    IF Len(p) > Available(b) /\ ~b.err
    THEN IF Buffered(b) = 0
         THEN IF b.left = 0
              THEN LET n == Min(b.part, Len(p) - 1)
                   IN BufWrite([b EXCEPT !.out = b.out \o SubSeq(p, 1, n), !.err = TRUE],
                               SubSeq(p, n + 1, Len(p)))
              ELSE BufWrite([b EXCEPT !.out = b.out \o p,
                                      !.left = IF b.left > 0 THEN b.left - 1 ELSE b.left],
                            <<>>)
         ELSE LET n == Available(b)
                  b1 == [b EXCEPT !.buf = b.buf \o SubSeq(p, 1, n)]
              IN BufWrite(BufFlush(b1), SubSeq(p, n + 1, Len(p)))
    ELSE IF b.err THEN b
    ELSE [b EXCEPT !.buf = b.buf \o p]

\* Faulty variant: Error reports only a failure of the write it makes itself.
WriterErrorOwnWrite(b) == BufWrite([b EXCEPT !.err = FALSE], <<>>).err

\* Writer.Error: the error returned by bufio's Write(nil).
WriterError(b) == BufWrite(b, <<>>).err

\* Faulty variant: WriteAll returns after the last record without a Flush.
RECURSIVE WriterWriteAllUnflushed(_, _, _, _)
WriterWriteAllUnflushed(b, cfg, records, i) ==
    IF i > Len(records)
    THEN [b |-> b, err |-> b.err, written |-> i - 1, flushed |-> FALSE]
    ELSE CHOOSE res \in
             { IF r.err
               THEN [b |-> r.b, err |-> TRUE, written |-> i, flushed |-> FALSE]
               ELSE WriterWriteAllUnflushed(r.b, cfg, records, i + 1) :
               r \in {WriterWrite(b, cfg, records[i])} } : TRUE

\* A WriteAll that goes on after a failed Write: every record is passed to
\* Write and the trailing Flush is called whatever happened.
RECURSIVE WriterWriteAllContinues(_, _, _, _)
WriterWriteAllContinues(b, cfg, records, i) ==
    IF i > Len(records)
    THEN CHOOSE res \in
             { [b |-> f, err |-> f.err, written |-> i - 1, flushed |-> TRUE] :
               f \in {WriterFlush(b)} } : TRUE
    ELSE CHOOSE res \in
             { WriterWriteAllContinues(r.b, cfg, records, i + 1) :
               r \in {WriterWrite(b, cfg, records[i])} } : TRUE

\* Writer.WriteAll from record i on: Write for each record, return at the first
\* error; after the last record, Flush and return its error.  The result also
\* tells how many records were passed to Write and whether Flush was called.
RECURSIVE WriterWriteAll(_, _, _, _)
WriterWriteAll(b, cfg, records, i) ==
    IF i > Len(records)
    THEN CHOOSE res \in
             { [b |-> f, err |-> f.err, written |-> i - 1, flushed |-> TRUE] :
               f \in {WriterFlush(b)} } : TRUE
    ELSE CHOOSE res \in
             { IF r.err
               THEN [b |-> r.b, err |-> TRUE, written |-> i, flushed |-> FALSE]
               ELSE WriterWriteAll(r.b, cfg, records, i + 1) :
               r \in {WriterWrite(b, cfg, records[i])} } : TRUE

\* No call made yet on a Writer used on its own.
NoCall == [op |-> "NewWriter", arg |-> <<>>, buf |-> 0, err |-> FALSE,
           pre |-> NewBuf(-1, 0), ops |-> <<>>, args |-> <<>>]

(***************************************************************************)
(* The pipeline of mycsv.go.                                               *)
(***************************************************************************)
VARIABLES
    proc,        \* the process: "running", or how it ended
    p,           \* readRows: the statement the producer goroutine is at
    c,           \* main/writeCSV: the statement the main goroutine is at
    armed,       \* catchNotifications: a SIGINT arrived less than signalTimeout ago
    csvHeader,   \* the -header flag
    source,      \* the result set of the query, a sequence of rows
    cursor,      \* rows: how many rows rows.Next() has fetched
    iterErr,     \* rows: the error rows.Err() will report
    vals,        \* the bytes reachable through vals, overwritten by each fetch
    headers,     \* the header pseudo-row built from the column names
    data,        \* writeCSV: the slice received from dataChan ("headers"/"vals")
    dataClosed,  \* close(dataChan) has happened
    quitClosed,  \* close(quitChan) has happened
    goClosed,    \* close(goChan) has happened
    w,           \* CSVWriter's bufio.Writer and the destination under it
    cfg,         \* CSVWriter's Delimiter, Quote, Escape and Terminator
    rowsWritten, \* writeCSV's counter
    reported,    \* the row count main printed (-1: none)
    sends,       \* rows handed over on dataChan so far
    acks,        \* advance signals handed over on goChan so far
    last,        \* the latest call made on a Writer used on its own, and its results
    flags        \* the texts of the -d, -q, -e and -t flags, as byte strings

vars == <<proc, p, c, armed, csvHeader, source, cursor, iterErr, vals, headers,
          data, dataClosed, quitClosed, goClosed, w, cfg, rowsWritten, reported,
          sends, acks, last, flags>>

chans == <<dataClosed, quitClosed, goClosed>>
rowsVars == <<source, cursor, iterErr, vals, headers>>
sinkVars == <<w, cfg, rowsWritten, reported, last, flags>>

\* The column names of the result set, and the rows a result set is made of.
Cols == <<<<99>>, <<100>>>>
NilVals == <<Null, Null>>
SrcRows ==
    { <<Val(<<97>>), Null>>,
      <<Val(<<98, DQuote>>), Val(<<>>)>>,
      <<Val(<<Comma>>), Val(<<LF, 99>>)>> }

RECURSIVE SeqsUpTo(_, _)
SeqsUpTo(S, n) ==
    IF n = 0 THEN {<<>>}
    ELSE LET shorter == SeqsUpTo(S, n - 1)
         IN shorter \cup {Append(s, x) : s \in {t \in shorter : Len(t) = n - 1}, x \in S}

ResultSets == SeqsUpTo(SrcRows, MaxRows)

\* What the consumer reads through the slice it received.
Deref(ref) == IF ref = "headers" THEN headers ELSE vals

\* The defaults of the flags -d, -q, -e and -t.
DefaultFlags ==
    [csvDelimiter |-> <<Comma>>, csvQuote |-> <<DQuote>>,
     csvEscape |-> <<Backslash>>, csvTerminator |-> <<LF>>]

Init ==
    /\ proc = "running"
    /\ p = "query"
    /\ c = "recv"
    /\ armed = FALSE
    /\ csvHeader \in BOOLEAN
    /\ source \in ResultSets
    /\ cursor = 0
    /\ iterErr = FALSE
    /\ vals = NilVals
    /\ headers = <<>>
    /\ data = "none"
    /\ dataClosed = FALSE
    /\ quitClosed = FALSE
    /\ goClosed = FALSE
    /\ \E left \in -1 .. MaxOkCalls, part \in 0 .. 1 :
          /\ (left = -1 => part = 0)
          /\ w = NewBuf(left, part)
    /\ cfg = NewWriterCfg
    /\ rowsWritten = 0
    /\ reported = -1
    /\ sends = 0
    /\ acks = 0
    /\ last = NoCall
    /\ flags = DefaultFlags

Running == proc = "running"

(***************************************************************************)
(* readRows, the producer goroutine.                                       *)
(***************************************************************************)
\* db.Query succeeds.
QueryOk ==
    /\ Running /\ p = "query"
    /\ p' = "columns"
    /\ UNCHANGED <<proc, c, armed, csvHeader, data, sends, acks, chans, rowsVars, sinkVars>>

\* db.Query fails: log.Print and os.Exit(1).
QueryFail ==
    /\ Running /\ p = "query"
    /\ proc' = "exit1"
    /\ UNCHANGED <<p, c, armed, csvHeader, data, sends, acks, chans, rowsVars, sinkVars>>

\* Faulty variant: the header pseudo-row is built and never sent.
ColumnsOkHeaderUnsent ==
    /\ Running /\ p = "columns"
    /\ headers' = IF csvHeader THEN [i \in 1 .. Len(Cols) |-> Val(Cols[i])] ELSE headers
    /\ p' = "next"
    /\ UNCHANGED <<proc, c, armed, csvHeader, data, sends, acks, chans,
                   source, cursor, iterErr, vals, sinkVars>>

\* rows.Columns succeeds; the header pseudo-row is built when -header is set.
ColumnsOk ==
    /\ Running /\ p = "columns"
    /\ headers' = IF csvHeader THEN [i \in 1 .. Len(Cols) |-> Val(Cols[i])] ELSE headers
    /\ p' = IF csvHeader THEN "sendHeader" ELSE "next"
    /\ UNCHANGED <<proc, c, armed, csvHeader, data, sends, acks, chans,
                   source, cursor, iterErr, vals, sinkVars>>

\* rows.Columns fails: checkErr panics.
ColumnsFail ==
    /\ Running /\ p = "columns"
    /\ p' = "panicked"
    /\ UNCHANGED <<proc, c, armed, csvHeader, data, sends, acks, chans, rowsVars, sinkVars>>

\* dataChan <- headers / dataChan <- vals meets the receive of range dataChan.
SendData ==
    /\ Running /\ p \in {"sendHeader", "sendRow"} /\ c = "recv"
    /\ ~dataClosed
    /\ data' = IF p = "sendHeader" THEN "headers" ELSE "vals"
    /\ p' = IF p = "sendHeader" THEN "waitGoHeader" ELSE "waitGo"
    /\ c' = "write"
    /\ sends' = sends + 1
    /\ UNCHANGED <<proc, armed, csvHeader, acks, chans, rowsVars, sinkVars>>

\* Faulty variant: the producer goes on without waiting for the advance signal.
RecvGoSkipped ==
    /\ Running /\ p \in {"waitGoHeader", "waitGo"}
    /\ p' = "next"
    /\ UNCHANGED <<proc, c, armed, csvHeader, data, sends, acks, chans, rowsVars, sinkVars>>

\* Faulty variant: the consumer sends the advance signal before it has written the row.
RecvGoBeforeWrite ==
    /\ Running /\ p \in {"waitGoHeader", "waitGo"} /\ c = "write"
    /\ p' = "next"
    /\ acks' = acks + 1
    /\ UNCHANGED <<proc, c, armed, csvHeader, data, sends, chans, rowsVars, sinkVars>>

\* <-goChan meets goChan <- true.
RecvGo ==
    /\ Running /\ p \in {"waitGoHeader", "waitGo"} /\ c = "sendGo"
    /\ p' = "next"
    /\ c' = "recv"
    /\ acks' = acks + 1
    /\ UNCHANGED <<proc, armed, csvHeader, data, sends, chans, rowsVars, sinkVars>>

\* Faulty variant: the driver also reads ahead into the shared storage while the
\* producer waits for the advance signal.
NextRowReadAhead ==
    /\ Running
    /\ cursor < Len(source)
    /\ \/ /\ p = "next"
          /\ cursor' = cursor + 1
          /\ p' = "scan"
       \/ /\ p = "waitGo"
          /\ UNCHANGED <<cursor, p>>
    /\ vals' = source[cursor + 1]
    /\ UNCHANGED <<proc, c, armed, csvHeader, data, sends, acks, chans,
                   source, iterErr, headers, sinkVars>>

\* rows.Next() returns true: the next row overwrites the shared storage.
NextRow ==
    /\ Running /\ p = "next"
    /\ cursor < Len(source)
    /\ cursor' = cursor + 1
    /\ vals' = source[cursor + 1]
    /\ p' = "scan"
    /\ UNCHANGED <<proc, c, armed, csvHeader, data, sends, acks, chans,
                   source, iterErr, headers, sinkVars>>

\* rows.Next() returns false at the end of the result set.
NextEnd ==
    /\ Running /\ p = "next"
    /\ cursor = Len(source)
    /\ p' = "rowsErr"
    /\ UNCHANGED <<proc, c, armed, csvHeader, data, sends, acks, chans, rowsVars, sinkVars>>

\* rows.Next() returns false because the fetch failed.
NextFail ==
    /\ Running /\ p = "next"
    /\ iterErr' = TRUE
    /\ p' = "rowsErr"
    /\ UNCHANGED <<proc, c, armed, csvHeader, data, sends, acks, chans,
                   source, cursor, vals, headers, sinkVars>>

\* rows.Scan succeeds.
ScanOk ==
    /\ Running /\ p = "scan"
    /\ p' = "sendRow"
    /\ UNCHANGED <<proc, c, armed, csvHeader, data, sends, acks, chans, rowsVars, sinkVars>>

\* rows.Scan fails: checkErr panics.
ScanFail ==
    /\ Running /\ p = "scan"
    /\ p' = "panicked"
    /\ UNCHANGED <<proc, c, armed, csvHeader, data, sends, acks, chans, rowsVars, sinkVars>>

\* Faulty variant: the error of rows.Err() is dropped.
RowsErrIgnored ==
    /\ Running /\ p = "rowsErr"
    /\ p' = "closeData"
    /\ UNCHANGED <<proc, c, armed, csvHeader, data, sends, acks, chans, rowsVars, sinkVars>>

\* err = rows.Err(); checkErr(err).
RowsErr ==
    /\ Running /\ p = "rowsErr"
    /\ p' = IF iterErr THEN "panicked" ELSE "closeData"
    /\ UNCHANGED <<proc, c, armed, csvHeader, data, sends, acks, chans, rowsVars, sinkVars>>

\* Faulty variant: readRows signals completion without closing dataChan.
CloseDataMissing ==
    /\ Running /\ p = "closeData"
    /\ p' = "sendQuit"
    /\ UNCHANGED <<proc, c, armed, csvHeader, data, sends, acks, chans, rowsVars, sinkVars>>

\* close(dataChan).
CloseData ==
    /\ Running /\ p = "closeData"
    /\ dataClosed' = TRUE
    /\ p' = "sendQuit"
    /\ UNCHANGED <<proc, c, armed, csvHeader, data, sends, acks, quitClosed, goClosed,
                   rowsVars, sinkVars>>

\* Faulty variant: main does not wait on quitChan.
SendQuitNotAwaited ==
    /\ Running
    /\ \/ /\ c = "recvQuit"
          /\ c' = "closeChans"
          /\ UNCHANGED p
       \/ /\ p = "sendQuit" /\ c \in {"closeChans", "report"} /\ ~quitClosed
          /\ p' = "done"
          /\ UNCHANGED c
    /\ UNCHANGED <<proc, armed, csvHeader, data, sends, acks, chans, rowsVars, sinkVars>>

\* quitChan <- true meets main's <-quitChan; readRows returns.
SendQuit ==
    /\ Running /\ p = "sendQuit" /\ c = "recvQuit"
    /\ ~quitClosed
    /\ p' = "done"
    /\ c' = "closeChans"
    /\ UNCHANGED <<proc, armed, csvHeader, data, sends, acks, chans, rowsVars, sinkVars>>

(***************************************************************************)
(* writeCSV and the end of main, the consumer.                             *)
(***************************************************************************)
\* Faulty variant: the error returned by Write is dropped.
WriteRowUnchecked ==
    /\ Running /\ c = "write"
    /\ w' = WriterWrite(w, cfg, Deref(data)).b
    /\ rowsWritten' = rowsWritten + 1
    /\ c' = "sendGo"
    /\ UNCHANGED <<proc, p, armed, csvHeader, data, sends, acks, chans, rowsVars,
                   cfg, reported, last, flags>>

\* Faulty variant: the buffer is flushed after every row.
WriteRowFlushEach ==
    /\ Running /\ c = "write"
    /\ LET r == WriterWrite(w, cfg, Deref(data))
           flushed == WriterFlush(r.b)
       IN IF r.err
          THEN /\ w' = r.b
               /\ c' = "panicked"
               /\ UNCHANGED rowsWritten
          ELSE /\ w' = flushed
               /\ rowsWritten' = rowsWritten + 1
               /\ c' = IF WriterError(flushed) THEN "panicked" ELSE "sendGo"
    /\ UNCHANGED <<proc, p, armed, csvHeader, data, sends, acks, chans, rowsVars,
                   cfg, reported, last, flags>>

\* Faulty variant: the header row is not counted.
WriteRowHeaderUncounted ==
    /\ Running /\ c = "write"
    /\ LET r == WriterWrite(w, cfg, Deref(data))
           flushed == IF r.buf > flushBufferSize THEN WriterFlush(r.b) ELSE r.b
       IN IF r.err
          THEN /\ w' = r.b
               /\ c' = "panicked"
               /\ UNCHANGED rowsWritten
          ELSE /\ w' = flushed
               /\ rowsWritten' = IF data = "headers" THEN rowsWritten ELSE rowsWritten + 1
               /\ c' = IF r.buf > flushBufferSize /\ WriterError(flushed)
                       THEN "panicked" ELSE "sendGo"
    /\ UNCHANGED <<proc, p, armed, csvHeader, data, sends, acks, chans, rowsVars,
                   cfg, reported, last, flags>>

\* The body of the range loop up to the advance signal: Write, checkErr, the
\* count, and the flush and error probe once the buffer exceeds flushBufferSize.
WriteRow ==
    /\ Running /\ c = "write"
    /\ LET r == WriterWrite(w, cfg, Deref(data))
           flushed == IF r.buf > flushBufferSize THEN WriterFlush(r.b) ELSE r.b
       IN IF r.err
          THEN /\ w' = r.b
               /\ c' = "panicked"
               /\ UNCHANGED rowsWritten
          ELSE /\ w' = flushed
               /\ rowsWritten' = rowsWritten + 1
               /\ c' = IF r.buf > flushBufferSize /\ WriterError(flushed)
                       THEN "panicked" ELSE "sendGo"
    /\ UNCHANGED <<proc, p, armed, csvHeader, data, sends, acks, chans, rowsVars,
                   cfg, reported, last, flags>>

\* range dataChan ends: the channel is closed.
RangeEnd ==
    /\ Running /\ c = "recv"
    /\ dataClosed
    /\ c' = "finalFlush"
    /\ UNCHANGED <<proc, p, armed, csvHeader, data, sends, acks, chans, rowsVars, sinkVars>>

\* w.Flush(); err := w.Error(); checkErr(err); return rowsWritten.
FinalFlush ==
    /\ Running /\ c = "finalFlush"
    /\ w' = WriterFlush(w)
    /\ c' = IF WriterError(w') THEN "panicked" ELSE "recvQuit"
    /\ UNCHANGED <<proc, p, armed, csvHeader, data, sends, acks, chans, rowsVars,
                   cfg, rowsWritten, reported, last, flags>>

\* close(quitChan); close(goChan).
CloseChans ==
    /\ Running /\ c = "closeChans"
    /\ quitClosed' = TRUE
    /\ goClosed' = TRUE
    /\ c' = "report"
    /\ UNCHANGED <<proc, p, armed, csvHeader, data, sends, acks, dataClosed,
                   rowsVars, sinkVars>>

\* The row count is printed when -v is set; main returns and the process ends.
Report ==
    /\ Running /\ c = "report"
    /\ \E verbose \in BOOLEAN : reported' = IF verbose THEN rowsWritten ELSE reported
    /\ c' = "done"
    /\ proc' = "exit0"
    /\ UNCHANGED <<p, armed, csvHeader, data, sends, acks, chans, rowsVars,
                   w, cfg, rowsWritten, last, flags>>

(***************************************************************************)
(* The process.                                                            *)
(***************************************************************************)
\* Faulty variant: a panic ends only the goroutine that raised it.
CrashGoroutineOnly ==
    /\ Running /\ (p = "panicked" \/ c = "panicked")
    /\ UNCHANGED vars

\* A goroutine panicked in checkErr (log.Panic): the Go runtime ends the process.
Crash ==
    /\ Running /\ (p = "panicked" \/ c = "panicked")
    /\ proc' = "panic"
    /\ UNCHANGED <<p, c, armed, csvHeader, data, sends, acks, chans, rowsVars, sinkVars>>

\* catchNotifications: a first SIGINT starts the timer.
SigintFirst ==
    /\ Running /\ ~armed
    /\ armed' = TRUE
    /\ UNCHANGED <<proc, p, c, csvHeader, data, sends, acks, chans, rowsVars, sinkVars>>

\* catchNotifications: a SIGINT within signalTimeout of the last one: os.Exit(0).
SigintAgain ==
    /\ Running /\ armed
    /\ proc' = "sigexit"
    /\ UNCHANGED <<p, c, armed, csvHeader, data, sends, acks, chans, rowsVars, sinkVars>>

\* signalTimeout passes without a second SIGINT.
SigintExpire ==
    /\ Running /\ armed
    /\ armed' = FALSE
    /\ UNCHANGED <<proc, p, c, csvHeader, data, sends, acks, chans, rowsVars, sinkVars>>

Next ==
    \/ QueryOk \/ QueryFail \/ ColumnsOk \/ ColumnsFail
    \/ SendData \/ RecvGo
    \/ NextRow \/ NextEnd \/ NextFail \/ ScanOk \/ ScanFail
    \/ RowsErr \/ CloseData \/ SendQuit
    \/ WriteRow \/ RangeEnd \/ FinalFlush \/ CloseChans \/ Report
    \/ Crash \/ SigintFirst \/ SigintAgain \/ SigintExpire

Spec == Init /\ [][Next]_vars

\* The goroutines of the pipeline (everything but the arrival of signals).  The
\* Go scheduler runs a goroutine that can take a step.
Pipeline ==
    \/ QueryOk \/ QueryFail \/ ColumnsOk \/ ColumnsFail
    \/ SendData \/ RecvGo
    \/ NextRow \/ NextEnd \/ NextFail \/ ScanOk \/ ScanFail
    \/ RowsErr \/ CloseData \/ SendQuit
    \/ WriteRow \/ RangeEnd \/ FinalFlush \/ CloseChans \/ Report
    \/ Crash

SpecFair == Init /\ [][Next]_vars /\ WF_vars(Pipeline)

\* An export in which no fetch and no write fails and no signal arrives.
InitOk == Init /\ w.left = -1

NextOk ==
    \/ QueryOk \/ ColumnsOk
    \/ SendData \/ RecvGo
    \/ NextRow \/ NextEnd \/ ScanOk
    \/ RowsErr \/ CloseData \/ SendQuit
    \/ WriteRow \/ RangeEnd \/ FinalFlush \/ CloseChans \/ Report

SpecLive == InitOk /\ [][NextOk]_vars /\ WF_vars(NextOk)

(***************************************************************************)
(* The Writer used on its own, as the tests of csv_writer_test.go use it:  *)
(* NewWriter on a destination, the exported fields set, then calls of      *)
(* Write, WriteAll, Flush and Error.  The pipeline is not started.         *)
(***************************************************************************)
\* Largest number of calls made on the Writer.
MaxCalls == 3

\* The default configuration; tab, single quote, caret and CR LF; quoting
\* disabled; quoting disabled and an empty terminator.
Configs ==
    { NewWriterCfg,
      [Delimiter |-> <<9>>, Quote |-> <<39>>, Escape |-> <<94>>, Terminator |-> <<13, LF>>],
      [Delimiter |-> <<Comma>>, Quote |-> <<>>, Escape |-> <<Backslash>>, Terminator |-> <<LF>>],
      [Delimiter |-> <<Comma>>, Quote |-> <<>>, Escape |-> <<Backslash>>, Terminator |-> <<>>] }

\* The records passed to Write, and the record lists passed to WriteAll.
Records ==
    { <<Val(<<>>)>>,
      <<Val(<<97, 98, 99>>)>>,
      <<Val(<<97>>), Null>>,
      <<Null, Val(<<97>>), Val(<<13, 233>>)>>,
      <<Val(<<97, LF>>)>>,
      <<Val(<<DQuote, NUL>>), Val(<<Comma, Backslash>>)>> }

RecordLists ==
    { <<>>,
      << <<Val(<<97>>), Null>>, <<Val(<<97, 98, 99>>)>> >> }

pipelineVars == <<proc, p, c, armed, csvHeader, source, cursor, iterErr, vals, headers,
                  data, dataClosed, quitClosed, goClosed, rowsWritten, reported,
                  sends, acks, flags>>

InitWriter ==
    /\ proc = "test"
    /\ p = "query"
    /\ c = "recv"
    /\ armed = FALSE
    /\ csvHeader = FALSE
    /\ source = <<>>
    /\ cursor = 0
    /\ iterErr = FALSE
    /\ vals = NilVals
    /\ headers = <<>>
    /\ data = "none"
    /\ dataClosed = FALSE
    /\ quitClosed = FALSE
    /\ goClosed = FALSE
    /\ \E left \in -1 .. MaxOkCalls, part \in 0 .. 1 :
          /\ (part = 1 => left = 0)
          /\ w = NewBuf(left, part)
    /\ cfg \in Configs
    /\ rowsWritten = 0
    /\ reported = -1
    /\ sends = 0
    /\ acks = 0
    /\ last = NoCall
    /\ flags = DefaultFlags

\* The record of a call: its argument, its results, the writer it found, and
\* the calls made so far with their arguments.
Call(op, arg, buf, err) ==
    [op |-> op, arg |-> arg, buf |-> buf, err |-> err,
     pre |-> w, ops |-> Append(last.ops, op), args |-> Append(last.args, arg)]

\* f.Write(record).
CallWrite ==
    /\ proc = "test" /\ Len(last.ops) < MaxCalls
    /\ \E record \in Records :
          LET r == WriterWrite(w, cfg, record)
          IN /\ w' = r.b
             /\ last' = Call("Write", record, r.buf, r.err)
    /\ UNCHANGED <<cfg, pipelineVars>>

\* f.WriteAll(records).
CallWriteAll ==
    /\ proc = "test" /\ Len(last.ops) < MaxCalls
    /\ \E records \in RecordLists :
          LET r == WriterWriteAll(w, cfg, records, 1)
          IN /\ w' = r.b
             /\ last' = Call("WriteAll", records, 0, r.err)
    /\ UNCHANGED <<cfg, pipelineVars>>

\* f.Flush().
CallFlush ==
    /\ proc = "test" /\ Len(last.ops) < MaxCalls
    /\ w' = WriterFlush(w)
    /\ last' = Call("Flush", <<>>, 0, FALSE)
    /\ UNCHANGED <<cfg, pipelineVars>>

\* err := f.Error().
CallError ==
    /\ proc = "test" /\ Len(last.ops) < MaxCalls
    /\ w' = BufWrite(w, <<>>)
    /\ last' = Call("Error", <<>>, 0, WriterError(w))
    /\ UNCHANGED <<cfg, pipelineVars>>

NextWriter == CallWrite \/ CallWriteAll \/ CallFlush \/ CallError

SpecWriter == InitWriter /\ [][NextWriter]_vars

(***************************************************************************)
(* The encoding of one record: TestWrite of csv_writer_test.go makes a     *)
(* Writer on a buffer that accepts every write, and WriteAll of the record *)
(* encodes it and flushes.  The configuration and the record are inputs.   *)
(***************************************************************************)
\* Largest number of bytes in the content of a field.
MaxLen == 2
\* Largest number of fields in a record.
MaxFields == 3

\* The default configuration; the default symbols in other roles, CR LF;
\* quoting disabled; delimiter equal to escape; quote equal to escape;
\* delimiter equal to quote; a terminator made of the special bytes.
EncConfigs ==
    { NewWriterCfg,
      [Delimiter |-> <<DQuote>>, Quote |-> <<Backslash>>, Escape |-> <<Comma>>,
       Terminator |-> <<13, LF>>],
      [Delimiter |-> <<Comma>>, Quote |-> <<>>, Escape |-> <<Backslash>>,
       Terminator |-> <<LF>>],
      [Delimiter |-> <<Backslash>>, Quote |-> <<DQuote>>, Escape |-> <<Backslash>>,
       Terminator |-> <<LF>>],
      [Delimiter |-> <<Comma>>, Quote |-> <<DQuote>>, Escape |-> <<DQuote>>,
       Terminator |-> <<LF>>],
      [Delimiter |-> <<DQuote>>, Quote |-> <<DQuote>>, Escape |-> <<Backslash>>,
       Terminator |-> <<LF>>],
      [Delimiter |-> <<Comma>>, Quote |-> <<DQuote>>, Escape |-> <<Backslash>>,
       Terminator |-> <<Backslash, DQuote, Comma, NUL, LF>>],
      [Delimiter |-> <<Backslash>>, Quote |-> <<>>, Escape |-> <<Backslash>>,
       Terminator |-> <<LF>>] }

\* The bytes of field contents: a, the special bytes, CR, a byte above 127 and
\* the letters N and 0 that follow the escape symbol in the NULL and NUL markers.
Alphabet == {97, Comma, DQuote, Backslash, NUL, LF, 13, 233, CharN, Char0}

\* Records of one field with any content; records of up to MaxFields null,
\* empty and short fields; the record "abc<LF>def" of writeTests.
EncRecords ==
    { <<Val(s)>> : s \in SeqsUpTo(Alphabet, MaxLen) }
    \cup SeqsUpTo({Null, Val(<<>>), Val(<<97>>), Val(<<Comma>>)}, MaxFields)
    \cup { <<Val(<<97, 98, 99, LF, 100, 101, 102>>)>> }

InitEncode ==
    /\ proc = "encode"
    /\ p = "query"
    /\ c = "recv"
    /\ armed = FALSE
    /\ csvHeader = FALSE
    /\ source = <<>>
    /\ cursor = 0
    /\ iterErr = FALSE
    /\ vals = NilVals
    /\ headers = <<>>
    /\ data = "none"
    /\ dataClosed = FALSE
    /\ quitClosed = FALSE
    /\ goClosed = FALSE
    /\ w = NewBuf(-1, 0)
    /\ cfg \in EncConfigs
    /\ rowsWritten = 0
    /\ reported = -1
    /\ sends = 0
    /\ acks = 0
    /\ last = NoCall
    /\ flags = DefaultFlags

\* f.WriteAll of one record on the new Writer.
EncodeRecord ==
    /\ proc = "encode" /\ last.ops = <<>>
    /\ \E record \in EncRecords :
          LET r == WriterWriteAll(w, cfg, <<record>>, 1)
          IN /\ w' = r.b
             /\ last' = Call("WriteAll", <<record>>, 0, r.err)
    /\ UNCHANGED <<cfg, pipelineVars>>

NextEncode == EncodeRecord

SpecEncode == InitEncode /\ [][NextEncode]_vars

(***************************************************************************)
(* main from the parsed flags on: the configuration of CSVWriter, the      *)
(* connection, then the export on a destination that never fails.          *)
(***************************************************************************)
\* The flag texts tried (92 is the backslash, 110, 114 and 116 the letters n, r
\* and t): the defaults; the two-character text backslash-t as
\* delimiter; the texts backslash-n, backslash-r backslash-n, backslash-r and
\* semicolon backslash-n, a real CR LF and the empty string as terminator;
\* the delimiter "ab", an empty delimiter, an empty escape, an empty quote and
\* a quote of one two-byte character.
FlagSets ==
    { DefaultFlags,
      [DefaultFlags EXCEPT !.csvDelimiter = <<Backslash, 116>>,
                           !.csvTerminator = <<Backslash, 114, Backslash, 110>>],
      [DefaultFlags EXCEPT !.csvTerminator = <<Backslash, 110>>],
      [DefaultFlags EXCEPT !.csvTerminator = <<Backslash, 114>>],
      [DefaultFlags EXCEPT !.csvTerminator = <<59, Backslash, 110>>],
      [DefaultFlags EXCEPT !.csvTerminator = <<13, LF>>],
      [DefaultFlags EXCEPT !.csvTerminator = <<>>],
      [DefaultFlags EXCEPT !.csvDelimiter = <<97, 98>>],
      [DefaultFlags EXCEPT !.csvDelimiter = <<>>],
      [DefaultFlags EXCEPT !.csvEscape = <<>>],
      [DefaultFlags EXCEPT !.csvQuote = <<>>],
      [DefaultFlags EXCEPT !.csvQuote = <<195, 169>>] }

InitMain ==
    /\ proc = "config"
    /\ p = "query"
    /\ c = "recv"
    /\ armed = FALSE
    /\ csvHeader \in BOOLEAN
    /\ source \in ResultSets
    /\ cursor = 0
    /\ iterErr = FALSE
    /\ vals = NilVals
    /\ headers = <<>>
    /\ data = "none"
    /\ dataClosed = FALSE
    /\ quitClosed = FALSE
    /\ goClosed = FALSE
    /\ w = NewBuf(-1, 0)
    /\ cfg = NewWriterCfg
    /\ rowsWritten = 0
    /\ reported = -1
    /\ sends = 0
    /\ acks = 0
    /\ last = NoCall
    /\ flags \in FlagSets

\* Faulty variant: the terminator is always taken as given.
ConfigureTerminatorVerbatim ==
    /\ proc = "config"
    /\ cfg' = [Delimiter |-> IF flags.csvDelimiter = <<Backslash, 116>>
                             THEN <<9>> ELSE flags.csvDelimiter,
               Quote |-> flags.csvQuote,
               Escape |-> flags.csvEscape,
               Terminator |-> flags.csvTerminator]
    /\ proc' = "connect"
    /\ UNCHANGED <<p, c, armed, csvHeader, data, sends, acks, chans, rowsVars,
                   w, rowsWritten, reported, last, flags>>

\* CSVWriter := NewWriter(writerDest) and the assignments of its symbols from
\* the flags: the text backslash-t becomes a tab, the texts backslash-r
\* backslash-n and backslash-n become CR LF and LF, anything else is taken as
\* given.
Configure ==
    /\ proc = "config"
    /\ cfg' = [Delimiter |-> IF flags.csvDelimiter = <<Backslash, 116>>
                             THEN <<9>> ELSE flags.csvDelimiter,
               Quote |-> flags.csvQuote,
               Escape |-> flags.csvEscape,
               Terminator |->
                   IF flags.csvTerminator = <<Backslash, 114, Backslash, 110>>
                   THEN <<13, LF>>
                   ELSE IF flags.csvTerminator = <<Backslash, 110>>
                   THEN <<LF>>
                   ELSE flags.csvTerminator]
    /\ proc' = "connect"
    /\ UNCHANGED <<p, c, armed, csvHeader, data, sends, acks, chans, rowsVars,
                   w, rowsWritten, reported, last, flags>>

\* No user name, or dbi.connect() fails: os.Exit(1).
ConnectFail ==
    /\ proc = "connect"
    /\ proc' = "exit1"
    /\ UNCHANGED <<p, c, armed, csvHeader, data, sends, acks, chans, rowsVars, sinkVars>>

\* The connection is made and the channels are created; the export starts.
ConnectOk ==
    /\ proc = "connect"
    /\ proc' = "running"
    /\ UNCHANGED <<p, c, armed, csvHeader, data, sends, acks, chans, rowsVars, sinkVars>>

NextMain == Configure \/ ConnectFail \/ ConnectOk \/ NextOk

SpecMain == InitMain /\ [][NextMain]_vars

(***************************************************************************)
(* Properties.                                                             *)
(***************************************************************************)
\* 1 when the header pseudo-row is sent, else 0.
HeaderRows == IF csvHeader THEN 1 ELSE 0

\* The bytes Write produces for a record on a destination that never fails.
RECURSIVE CallBytes(_, _)
CallBytes(calls, i) ==
    IF i > Len(calls) THEN <<>> ELSE calls[i].s \o CallBytes(calls, i + 1)

Encoding(config, record) ==
    CallBytes(WriteFields(config, record, 1), 1) \o config.Terminator

RECURSIVE EncodeRows(_, _, _)
EncodeRows(config, rows, i) ==
    IF i > Len(rows) THEN <<>>
    ELSE Encoding(config, rows[i]) \o EncodeRows(config, rows, i + 1)

\* The header line (if any) followed by every row of the result set, encoded.
ExpectedOutput ==
    (IF csvHeader THEN Encoding(cfg, [i \in 1 .. Len(Cols) |-> Val(Cols[i])]) ELSE <<>>)
    \o EncodeRows(cfg, source, 1)

\* C1: the producer calls rows.Next() and rows.Scan() for the next row only when
\* every row it has sent so far (the header and the rows fetched before) has been
\* answered by an advance signal on goChan.
C1_FetchAfterAdvance ==
    [][ /\ (p = "next" /\ p' # "next") => (acks = sends /\ sends = cursor + HeaderRows)
        /\ (p = "scan" /\ p' # "scan") => (acks = sends /\ sends = cursor - 1 + HeaderRows)
        /\ (vals' # vals) => acks = sends ]_vars

C1_Witness == cursor = 2 /\ p = "scan" /\ acks = sends /\ acks >= 2

\* C2: when the export ends successfully the destination holds exactly the
\* encoding of the header (if enabled) and of every row of the result set, in
\* fetch order, each once, with the content the row had when it was fetched.
C2_OutputIsRowsInOrder ==
    proc = "exit0" => (w.out = ExpectedOutput /\ w.buf = <<>>)

C2_Witness ==
    /\ proc = "exit0" /\ Len(source) = 2 /\ source[1] # source[2]
    /\ w.out = ExpectedOutput

\* C3: the advance signal for a row is sent only when Write (and the flush and
\* error probe, if any) for that row is over, and the consumer reads a row's
\* storage only while the advance signal for that row has not been sent.
C3_AdvanceAfterWrite ==
    [][ /\ (acks' # acks) => (c = "sendGo" /\ rowsWritten = sends /\ acks' = rowsWritten)
        /\ (c = "write" /\ c' # "write") => acks = sends - 1 ]_vars

C3_Witness == c = "recv" /\ acks = 2 /\ rowsWritten = 2 /\ cursor >= 1

\* C4: row signals and advance signals alternate, starting with a row signal:
\* rows sent minus advance signals sent is 0 or 1, an advance signal is sent
\* only while a row is outstanding, a row only while none is, and the counts
\* are equal once the row channel is closed.
C4_Alternation ==
    /\ [](sends - acks \in {0, 1} /\ (dataClosed => sends = acks))
    /\ [][ /\ (acks' # acks) => (sends = acks + 1 /\ acks' = sends)
           /\ (sends' # sends) => (sends = acks /\ sends' = acks + 1) ]_vars

C4_Witness == dataClosed /\ sends = acks /\ sends = 3

\* C5: with no fetch error, no write error and no signal, every export ends:
\* the row channel is closed, the completion signal is delivered, the consumer
\* has flushed, and main finishes.
C5_Terminates ==
    <>(proc = "exit0" /\ dataClosed /\ p = "done" /\ c = "done" /\ w.buf = <<>>
       /\ rowsWritten = Len(source) + HeaderRows)

C5_Witness == proc = "exit0" /\ source = <<>> /\ ~csvHeader /\ p = "done" /\ c = "done"

\* C6: the row count is printed only after the producer closed dataChan and
\* main received its completion signal on quitChan; the close of dataChan
\* comes before the completion signal.
C6_ReportAfterCompletion ==
    /\ (reported # -1 \/ c \in {"closeChans", "report", "done"}) => (p = "done" /\ dataClosed)
    /\ p \in {"sendQuit", "done"} => dataClosed

C6_Witness == reported = 3 /\ p = "done" /\ dataClosed /\ proc = "exit0"

\* C7 as stated: when a task has stopped mid-stream (after the first row signal,
\* by a panic or by the abort of the process), the counterpart was released by
\* a closure it observed: a consumer waiting on dataChan saw it closed, a
\* producer waiting on goChan saw it closed.
C7_CounterpartObservesClosure ==
    (proc \in {"panic", "sigexit"} /\ sends >= 1) =>
        /\ (c = "recv" => dataClosed)
        /\ (p \in {"waitGoHeader", "waitGo"} => goClosed)

\* C7 amended: when a goroutine panics the whole process ends (and os.Exit ends
\* it at once), so no task stays blocked in a live process; the counterpart
\* observes no closure: a failed producer never closes dataChan, goChan and
\* quitChan are closed only by main after a complete export.
C7_ProcessEndsWithoutClosure ==
    /\ []((p = "panicked" \/ proc = "exit1") => ~dataClosed)
    /\ []((goClosed \/ quitClosed) => (p = "done" /\ c \in {"report", "done"}))
    /\ ((p = "panicked" \/ c = "panicked") ~> (proc \in {"panic", "sigexit"}))

C7_Witness == proc = "panic" /\ p = "panicked" /\ c = "recv" /\ ~dataClosed /\ sends >= 1

\* C8 as stated: on every exit path the sink has been flushed, so no byte
\* accepted by Write is still pending when the process is over.
C8_FlushedOnEveryExit ==
    proc # "running" => w.buf = <<>>

\* The fetch has failed in the producer.
FetchFailed == iterErr \/ p = "panicked" \/ proc = "exit1"

\* C9: after a fetch failure nothing is fetched again, no further row is sent,
\* dataChan is not closed, and no row count is reported: the export never ends
\* as a success.
C9_FetchFailureIsFatal ==
    /\ [](FetchFailed => (reported = -1 /\ proc # "exit0" /\ ~dataClosed))
    /\ [][FetchFailed => (sends' = sends /\ cursor' = cursor /\ vals' = vals
                          /\ p' \in {"rowsErr", "panicked", p})]_vars

C9_Witness == p = "panicked" /\ iterErr /\ sends = 2 /\ proc = "panic"

\* C10: once a write to the destination has failed the consumer is in a panic:
\* writeCSV does not return, no advance signal is sent for the row being
\* written or any later row, no further row is received or counted, and no
\* row count is reported.
C10_WriteFailureHalts ==
    /\ [](w.err => (c = "panicked" /\ reported = -1 /\ proc # "exit0"))
    /\ [][w.err' => (acks' = acks /\ sends' = sends /\ rowsWritten' = rowsWritten)]_vars

C10_Witness == w.err /\ c = "panicked" /\ proc = "panic" /\ sends = 2 /\ acks = 1

\* A call has just been made on the Writer used on its own.
Called(op) == last' # last /\ last'.op = op

\* C11: the error of the sink is sticky: once a write to the destination has
\* failed, no later Write, WriteAll or Flush delivers a further byte to the
\* destination, the failure stays recorded, and every later Error() returns it.
C11_ErrorIsSticky ==
    [][w.err => /\ w'.out = w.out
                /\ w'.err
                /\ (Called("Error") => last'.err)]_vars

C11_Witness ==
    /\ last.ops = <<"Write", "Flush", "Error">>
    /\ last.err /\ last.pre.err
    /\ w.left = 0 /\ w.part = 1 /\ w.out # <<>> /\ w.buf # <<>>

\* C12: when a write to the destination fails during Write(record), that call
\* of Write returns a non-nil error, wherever in the record the failure falls
\* (the NULL marker and the two-symbol escape sequences included).
C12_WriteReportsSinkFailure ==
    [][(Called("Write") /\ ~w.err /\ w'.err) => last'.err]_vars

C12_Witness ==
    /\ last.op = "Write" /\ last.arg = <<Val(<<97>>), Null>>
    /\ cfg = NewWriterCfg /\ last.pre = NewBuf(0, 0)
    /\ w.err /\ last.err

\* The destination fails every write and has taken no byte.
AlwaysFails(b) == b.left = 0 /\ b.out = <<>>

\* C13 as stated: Error() emits no data; after Write then Flush it returns nil
\* on a destination that accepts writes and a non-nil error on a destination
\* whose writes always fail.
C13_ErrorAfterWriteFlush ==
    /\ [][Called("Error") => w' = w]_vars
    /\ [](last.ops = <<"Write", "Flush", "Error">> =>
             /\ (w.left = -1 => ~last.err)
             /\ (AlwaysFails(w) => last.err))

\* C13 amended: Error() emits no data; after Write then Flush it returns nil
\* on a destination that accepts writes; on a destination whose writes always
\* fail it returns a non-nil error when the record encoded to at least one
\* byte, and nil when it encoded to none (no write reached the destination).
C13_ErrorReportsAttemptedWrites ==
    /\ [][Called("Error") => w' = w]_vars
    /\ [](last.ops = <<"Write", "Flush", "Error">> =>
             /\ (w.left = -1 => ~last.err)
             /\ (AlwaysFails(w) => (last.err <=> Encoding(cfg, last.args[1]) # <<>>)))

C13_Witness ==
    /\ last.ops = <<"Write", "Flush", "Error">>
    /\ last.args[1] = <<Val(<<97, 98, 99>>)>>
    /\ cfg = NewWriterCfg /\ AlwaysFails(w) /\ w.part = 0
    /\ last.err

\* The call just made is a Flush that follows a Flush.
SecondFlush == Called("Flush") /\ last.op = "Flush"

\* C14 as stated: a second Flush with no Write in between delivers no
\* additional byte and leaves the pending buffer empty.
C14_SecondFlushEmptiesBuffer ==
    [][SecondFlush => (w'.out = w.out /\ w'.buf = <<>>)]_vars

\* C14 amended: a second Flush with no Write in between changes nothing: it
\* delivers no additional byte; the pending buffer is empty when the first
\* Flush succeeded, and still holds the undelivered bytes when it failed.
C14_SecondFlushChangesNothing ==
    [][SecondFlush => (w' = w /\ (w'.buf = <<>> <=> (~w.err \/ w.buf = <<>>)))]_vars

C14_Witness ==
    /\ last.ops = <<"Write", "Flush", "Flush">>
    /\ ~w.err /\ w.out # <<>> /\ w.buf = <<>>

\* C16: the integer returned by a successful Write(record) is the number of
\* bytes pending in the buffer of the sink after the record was written, not
\* the number of bytes the call produced.
C16_WriteReturnsPending ==
    [][(Called("Write") /\ ~last'.err) => last'.buf = Buffered(w')]_vars

C16_Witness ==
    /\ last.op = "Write" /\ ~last.err
    /\ last.buf = Buffered(w)
    /\ last.buf # Len(Encoding(cfg, last.arg))
    /\ Buffered(last.pre) > 0

HeaderRow == [i \in 1 .. Len(Cols) |-> Val(Cols[i])]

\* The line that must come first in the output.
FirstLine == Encoding(cfg, IF csvHeader THEN HeaderRow ELSE source[1])

IsPrefix(s, t) == Len(s) <= Len(t) /\ SubSeq(t, 1, Len(s)) = s

\* C17: with the header enabled, one header row made of the column names
\* (every field non-null) is handed over on dataChan before the first data row
\* is fetched, only once, and the output starts with its encoding; with the
\* header disabled no header row is built or sent and the output starts with
\* the encoding of the first data row.
C17_HeaderRowFirst ==
    /\ (csvHeader /\ sends >= 1) => headers = HeaderRow
    /\ data = "headers" => (csvHeader /\ sends = 1)
    /\ (csvHeader /\ sends >= 2) => data = "vals"
    /\ cursor >= 1 => (sends >= HeaderRows /\ acks >= HeaderRows)
    /\ ~csvHeader => (headers = <<>> /\ data # "headers")
    /\ rowsWritten >= 1 => IsPrefix(FirstLine, w.out \o w.buf)

C17_Witness ==
    /\ csvHeader /\ proc = "exit0" /\ Len(source) = 2
    /\ rowsWritten = 3 /\ IsPrefix(Encoding(cfg, HeaderRow), w.out)

\* writeCSV has returned its row count.
WriteCSVReturned == c \in {"recvQuit", "closeChans", "report", "done"}

\* C18: the row count returned by writeCSV is the number of rows received on
\* dataChan and the number of lines written: the number of data rows, plus one
\* when the header is enabled; this is the count main reports.
C18_RowCountIncludesHeader ==
    /\ WriteCSVReturned => /\ rowsWritten = sends
                           /\ rowsWritten = Len(source) + HeaderRows
                           /\ w.out = ExpectedOutput
    /\ reported # -1 => reported = Len(source) + HeaderRows

C18_Witness == csvHeader /\ Len(source) = 2 /\ reported = 3 /\ proc = "exit0"

\* Every byte a bufio.Writer holds or has delivered, in order.
Accepted(b) == b.out \o b.buf

\* A call of Write has just returned without an error.
WriteDone == Called("Write") /\ ~last'.err /\ ~w'.err

\* The bytes of a symbol.
BytesOf(s) == {s[i] : i \in 1 .. Len(s)}

\* No non-null field of the record holds one of the given bytes.
FreeOf(record, special) ==
    \A i \in 1 .. Len(record) :
        record[i].isNull \/ BytesOf(record[i].bytes) \cap special = {}

\* A line of unescaped fields from field i on: each non-null field between
\* quotes (a NULL field as its marker), delimiters between fields, terminator.
RECURSIVE PlainLine(_, _, _)
PlainLine(config, record, i) ==
    IF i > Len(record) THEN config.Terminator
    ELSE (IF i > 1 THEN config.Delimiter ELSE <<>>)
         \o (IF record[i].isNull THEN config.Escape \o <<CharN>>
             ELSE config.Quote \o record[i].bytes \o config.Quote)
         \o PlainLine(config, record, i + 1)

\* C19 as stated: with quoting enabled, a row whose non-null fields hold no
\* delimiter, quote, escape or NUL byte is encoded as quote + field bytes +
\* quote for each field, joined by the delimiter and ended by the terminator.
C19_PlainFieldsOnlyQuoted ==
    [][(/\ WriteDone /\ cfg.Quote # <<>>
        /\ FreeOf(last'.arg, BytesOf(cfg.Delimiter) \cup BytesOf(cfg.Quote)
                               \cup BytesOf(cfg.Escape) \cup {NUL}))
       => Accepted(w') = Accepted(w) \o PlainLine(cfg, last'.arg, 1)]_vars

\* C19 amended: with quoting enabled, a row whose non-null fields hold no
\* delimiter, quote, escape, NUL or line feed byte is encoded as quote + field
\* bytes + quote for each field, joined by the delimiter and ended by the
\* terminator (a line feed in a field is written with the escape before it).
C19_PlainFieldsWithoutLFOnlyQuoted ==
    [][(/\ WriteDone /\ cfg.Quote # <<>>
        /\ FreeOf(last'.arg, BytesOf(cfg.Delimiter) \cup BytesOf(cfg.Quote)
                               \cup BytesOf(cfg.Escape) \cup {NUL, LF}))
       => Accepted(w') = Accepted(w) \o PlainLine(cfg, last'.arg, 1)]_vars

C19_Witness ==
    /\ last.op = "Write" /\ ~last.err /\ ~w.err
    /\ last.arg = <<Null, Val(<<97>>), Val(<<13, 233>>)>>
    /\ cfg.Quote = <<39>>
    /\ Accepted(w) = Accepted(last.pre)
                       \o <<94, CharN, 9, 39, 97, 39, 9, 39, 13, 233, 39, 13, LF>>

\* The bytes of one field: the NULL marker, or what Write makes of the content.
FieldBytes(config, field) ==
    IF field.isNull THEN config.Escape \o <<CharN>>
    ELSE CallBytes(WriteQuote(config) \o WriteContent(config, field.bytes, 1)
                   \o WriteQuote(config), 1)

RECURSIVE LineOfFields(_, _, _)
LineOfFields(config, record, i) ==
    IF i > Len(record) THEN config.Terminator
    ELSE (IF i > 1 THEN config.Delimiter ELSE <<>>)
         \o FieldBytes(config, record[i])
         \o LineOfFields(config, record, i + 1)

\* C20: a NULL field is encoded as the configured escape symbol followed by
\* 'N', without quotes, at any place in the record and whatever the delimiter,
\* the quote and the terminator are; the marker follows the escape symbol.
C20_NullIsEscapeN ==
    [][WriteDone => Accepted(w') = Accepted(w) \o LineOfFields(cfg, last'.arg, 1)]_vars

C20_Witness ==
    /\ last.op = "Write" /\ ~last.err /\ ~w.err
    /\ last.arg = <<Val(<<97>>), Null>>
    /\ cfg.Escape = <<94>>
    /\ Accepted(w) = Accepted(last.pre) \o <<39, 97, 39, 9, 94, CharN, 13, LF>>

\* A record has been encoded on its own; the record.
Encoded == proc = "encode" /\ last.op = "WriteAll" /\ ~last.err
Rec == last.arg[1]

\* The bytes Write makes of one content byte.
ByteImage(config, f) == CallBytes(EscapeByte(config, f), 1)

\* The content bytes a rule speaks about.
Applies(rule, config, f) ==
    CASE rule = "quote, escape, NUL" ->
            <<f>> = config.Quote \/ <<f>> = config.Escape \/ f = NUL
      [] rule = "quote, escape, NUL, not delimiter" ->
            /\ <<f>> = config.Quote \/ <<f>> = config.Escape \/ f = NUL
            /\ <<f>> # config.Delimiter
      [] rule = "delimiter" -> <<f>> = config.Delimiter
      [] rule = "NUL" -> f = NUL /\ <<f>> \notin {config.Delimiter, config.Quote, config.Escape}
      [] rule = "other" ->
            <<f>> \notin {config.Delimiter, config.Quote, config.Escape} /\ f # NUL
      [] rule = "other, not LF" ->
            <<f>> \notin {config.Delimiter, config.Quote, config.Escape} /\ f \notin {NUL, LF}
      [] rule = "LF" -> f = LF /\ <<f>> \notin {config.Delimiter, config.Quote, config.Escape}

\* What the rule prescribes for such a byte.
Prescribed(rule, config, f) ==
    CASE rule \in {"quote, escape, NUL", "quote, escape, NUL, not delimiter"} ->
            config.Escape \o (IF <<f>> \in {config.Quote, config.Escape} THEN <<f>> ELSE <<Char0>>)
      [] rule = "delimiter" ->
            IF config.Quote = <<>> THEN config.Escape \o <<f>> ELSE <<f>>
      [] rule = "NUL" -> config.Escape \o <<Char0>>
      [] rule \in {"other", "other, not LF"} -> <<f>>
      [] rule = "LF" -> config.Escape \o <<LF>>

\* The line of a record from field i on under a rule: the rule's bytes for the
\* content bytes it speaks about and the bytes Write makes of the others,
\* between quotes; the NULL marker; delimiters between fields; the terminator.
RECURSIVE RuleContent(_, _, _, _)
RuleContent(rule, config, bytes, i) ==
    IF i > Len(bytes) THEN <<>>
    ELSE (IF Applies(rule, config, bytes[i]) THEN Prescribed(rule, config, bytes[i])
          ELSE ByteImage(config, bytes[i]))
         \o RuleContent(rule, config, bytes, i + 1)

RECURSIVE RuleLine(_, _, _, _)
RuleLine(rule, config, record, i) ==
    IF i > Len(record) THEN config.Terminator
    ELSE (IF i > 1 THEN config.Delimiter ELSE <<>>)
         \o (IF record[i].isNull THEN config.Escape \o <<CharN>>
             ELSE config.Quote \o RuleContent(rule, config, record[i].bytes, 1)
                  \o config.Quote)
         \o RuleLine(rule, config, record, i + 1)

\* C21 as stated: for every configuration, each byte of a field's content
\* equal to the quote symbol, the escape symbol or NUL is written with exactly
\* one escape symbol before it.
C21_SpecialBytesEscaped ==
    Encoded => w.out = RuleLine("quote, escape, NUL", cfg, Rec, 1)

\* C21 amended: each byte of a field's content equal to the quote symbol, the
\* escape symbol or NUL, and not equal to the delimiter, is written with
\* exactly one escape symbol before it (a byte equal to the delimiter follows
\* the delimiter rule, which comes first).
C21_SpecialBytesEscapedUnlessDelimiter ==
    Encoded => w.out = RuleLine("quote, escape, NUL, not delimiter", cfg, Rec, 1)

C21_Witness ==
    /\ Encoded /\ cfg = NewWriterCfg /\ Rec = <<Val(<<DQuote, Backslash>>)>>
    /\ w.out = <<DQuote, Backslash, DQuote, Backslash, Backslash, DQuote, LF>>

\* C22: a byte of a field's content equal to the delimiter is written as it
\* is, one byte, when quoting is enabled, and as the escape symbol followed by
\* the delimiter when quoting is disabled.
C22_DelimiterInContent ==
    Encoded => w.out = RuleLine("delimiter", cfg, Rec, 1)

C22_Witness ==
    /\ Encoded /\ cfg.Quote = <<>> /\ Rec = <<Val(<<97, Comma>>)>>
    /\ w.out = <<97, Backslash, Comma, LF>>

\* The bytes written before the terminator.
Body == SubSeq(w.out, 1, Len(w.out) - Len(cfg.Terminator))

\* C23: a NUL byte of a field's content is written as the escape symbol
\* followed by the character 0, with quoting enabled or disabled, and no 0x00
\* byte is written for the content of a field.
C23_NulIsEscapeZero ==
    Encoded => /\ w.out = RuleLine("NUL", cfg, Rec, 1)
               /\ NUL \notin BytesOf(Body)

C23_Witness ==
    /\ Encoded /\ cfg.Quote = <<>> /\ Rec = <<Val(<<NUL, 97>>)>>
    /\ w.out = <<Backslash, Char0, 97, LF>>

\* C24 as stated: every content byte that is not the delimiter, the quote
\* symbol, the escape symbol or NUL is written as that one byte, unchanged.
C24_OtherBytesLiteral ==
    Encoded => w.out = RuleLine("other", cfg, Rec, 1)

\* C24 amended: every content byte that is not the delimiter, the quote
\* symbol, the escape symbol, NUL or the line feed is written as that one
\* byte, unchanged (a carriage return and a byte above 127 included).
C24_OtherBytesButLFLiteral ==
    Encoded => w.out = RuleLine("other, not LF", cfg, Rec, 1)

C24_Witness ==
    /\ Encoded /\ cfg = NewWriterCfg /\ Rec = <<Val(<<13, 233>>)>>
    /\ w.out = <<DQuote, 13, 233, DQuote, LF>>

\* C25: a line feed byte of a field's content is written as the escape
\* symbol followed by the line feed; the default writer encodes abc<LF>def as
\* "abc\<LF>def" and the terminator.
C25_LineFeedEscaped ==
    Encoded => w.out = RuleLine("LF", cfg, Rec, 1)

C25_Witness ==
    /\ Encoded /\ cfg = NewWriterCfg
    /\ Rec = <<Val(<<97, 98, 99, LF, 100, 101, 102>>)>>
    /\ w.out = <<DQuote, 97, 98, 99, Backslash, LF, 100, 101, 102, DQuote, LF>>

\* The number of bytes written before field i of the record.
RECURSIVE FieldStart(_, _, _)
FieldStart(config, record, i) ==
    IF i = 1 THEN 0
    ELSE FieldStart(config, record, i - 1)
         + Len(FieldBytes(config, record[i - 1])) + Len(config.Delimiter)

\* C26: a record of k >= 1 fields is written with its fields in column order
\* and a delimiter before every field except the first: the first field starts
\* the line, and only the terminator follows the last field, so k-1 delimiters
\* separate the fields, whether they are null, empty or not.
C26_DelimitersBetweenFields ==
    (Encoded /\ Len(Rec) >= 1) =>
        /\ \A i \in 1 .. Len(Rec) :
              LET start == FieldStart(cfg, Rec, i)
                  bytes == FieldBytes(cfg, Rec[i])
              IN /\ SubSeq(w.out, start + 1, start + Len(bytes)) = bytes
                 /\ i > 1 => SubSeq(w.out, start - Len(cfg.Delimiter) + 1, start)
                                = cfg.Delimiter
        /\ Len(w.out) = FieldStart(cfg, Rec, Len(Rec))
                         + Len(FieldBytes(cfg, Rec[Len(Rec)])) + Len(cfg.Terminator)

C26_Witness ==
    /\ Encoded /\ cfg = NewWriterCfg /\ Rec = <<Null, Val(<<>>), Val(<<97>>)>>
    /\ w.out = <<Backslash, CharN, Comma, DQuote, DQuote, Comma, DQuote, 97, DQuote, LF>>

\* A line from field i on in which an empty field is two quotes.
RECURSIVE EmptyQuotedLine(_, _, _)
EmptyQuotedLine(config, record, i) ==
    IF i > Len(record) THEN config.Terminator
    ELSE (IF i > 1 THEN config.Delimiter ELSE <<>>)
         \o (IF record[i] = Val(<<>>) THEN config.Quote \o config.Quote
             ELSE FieldBytes(config, record[i]))
         \o EmptyQuotedLine(config, record, i + 1)

\* C27: with quoting enabled a non-null field of zero length is written as two
\* quote symbols, and the line differs from the line of the same record with
\* NULL in place of that field.
C27_EmptyFieldIsTwoQuotes ==
    (Encoded /\ cfg.Quote # <<>>) =>
        /\ w.out = EmptyQuotedLine(cfg, Rec, 1)
        /\ \A i \in 1 .. Len(Rec) :
              Rec[i] = Val(<<>>) => w.out # Encoding(cfg, [Rec EXCEPT ![i] = Null])

C27_Witness ==
    /\ Encoded /\ cfg = NewWriterCfg /\ Rec = <<Val(<<>>), Null>>
    /\ w.out = <<DQuote, DQuote, Comma, Backslash, CharN, LF>>

\* The number of bytes of the fields of a record and of the delimiters between them.
FieldsLen(config, record) ==
    IF record = <<>> THEN 0
    ELSE FieldStart(config, record, Len(record))
         + Len(FieldBytes(config, record[Len(record)]))

\* C28: the line of every record, a record of no field included, ends with the
\* terminator as configured, written once: its bytes follow the fields
\* unchanged, whatever special bytes it holds.
C28_TerminatorVerbatimOnce ==
    Encoded =>
        /\ Len(w.out) = FieldsLen(cfg, Rec) + Len(cfg.Terminator)
        /\ SubSeq(w.out, FieldsLen(cfg, Rec) + 1, Len(w.out)) = cfg.Terminator
        /\ Rec = <<>> => w.out = cfg.Terminator

C28_Witness ==
    /\ Encoded /\ Rec = <<>>
    /\ cfg.Terminator = <<Backslash, DQuote, Comma, NUL, LF>>
    /\ w.out = <<Backslash, DQuote, Comma, NUL, LF>>

\* The bytes of one content byte when quoting is disabled.
UnquotedByte(config, f) ==
    IF <<f>> = config.Delimiter \/ <<f>> = config.Escape THEN config.Escape \o <<f>>
    ELSE IF f = NUL THEN config.Escape \o <<Char0>>
    ELSE IF f = LF THEN config.Escape \o <<LF>>
    ELSE <<f>>

RECURSIVE UnquotedContent(_, _, _)
UnquotedContent(config, bytes, i) ==
    IF i > Len(bytes) THEN <<>>
    ELSE UnquotedByte(config, bytes[i]) \o UnquotedContent(config, bytes, i + 1)

RECURSIVE UnquotedLine(_, _, _)
UnquotedLine(config, record, i) ==
    IF i > Len(record) THEN config.Terminator
    ELSE (IF i > 1 THEN config.Delimiter ELSE <<>>)
         \o (IF record[i].isNull THEN config.Escape \o <<CharN>>
             ELSE UnquotedContent(config, record[i].bytes, 1))
         \o UnquotedLine(config, record, i + 1)

\* C29: with the quote symbol set to the empty string no quote is written
\* around a field, and no content byte is handled as a quote: a byte such as
\* the default quote is written as it is.
C29_EmptyQuoteDisablesQuoting ==
    (Encoded /\ cfg.Quote = <<>>) => w.out = UnquotedLine(cfg, Rec, 1)

C29_Witness ==
    /\ Encoded /\ cfg.Quote = <<>> /\ Rec = <<Val(<<DQuote, 97>>)>>
    /\ w.out = <<DQuote, 97, LF>>

\* C30: a WriteAll that succeeds leaves nothing pending, and the destination
\* holds what the writer held before followed by the encodings of the records
\* in the given order, each with its terminator; the encoding of a record is
\* the same whatever was written before it.
C30_WriteAllWritesAllAndFlushes ==
    [][(Called("WriteAll") /\ ~last'.err) =>
          /\ w'.buf = <<>>
          /\ w'.out = Accepted(w) \o EncodeRows(cfg, last'.arg, 1)]_vars

C30_Witness ==
    /\ last.ops = <<"WriteAll">> /\ ~last.err /\ cfg = NewWriterCfg
    /\ last.arg = << <<Val(<<97>>), Null>>, <<Val(<<97, 98, 99>>)>> >>
    /\ w.buf = <<>>
    /\ w.out = <<DQuote, 97, DQuote, Comma, Backslash, CharN, LF,
                 DQuote, 97, 98, 99, DQuote, LF>>

\* The writer after Write has been called on the first k records of a list.
RECURSIVE WritesUpTo(_, _, _, _)
WritesUpTo(b, config, records, k) ==
    IF k = 0 THEN b
    ELSE CHOOSE res \in
             { WriterWrite(prev, config, records[k]).b :
               prev \in {WritesUpTo(b, config, records, k - 1)} } : TRUE

\* The places in a list of the records whose Write returns an error.
FailingWrites(b, config, records) ==
    { k \in 1..Len(records) :
        WriterWrite(WritesUpTo(b, config, records, k - 1), config, records[k]).err }

FirstFailing(b, config, records) ==
    CHOOSE k \in FailingWrites(b, config, records) :
        \A j \in FailingWrites(b, config, records) : k <= j

\* C33: when the Write of some record of the list fails, WriteAll passes to
\* Write the records up to the first failing one and no later one, does not
\* call Flush, returns an error, and leaves the writer as that Write left it.
C33_WriteAllStopsAtFirstError ==
    [][(Called("WriteAll") /\ FailingWrites(w, cfg, last'.arg) # {}) =>
          LET k == FirstFailing(w, cfg, last'.arg)
              r == WriterWriteAll(w, cfg, last'.arg, 1)
          IN  /\ r.written = k
              /\ ~r.flushed
              /\ r.err /\ last'.err
              /\ w' = WritesUpTo(w, cfg, last'.arg, k)]_vars

C33_Witness ==
    /\ last.ops = <<"WriteAll">> /\ last.err /\ Len(last.arg) = 2
    /\ FirstFailing(last.pre, cfg, last.arg) = 1
    /\ w.err /\ w.out = <<>>

\* C35: the count returned by Write, and the number of bytes pending after it,
\* never exceed the capacity of the buffer; a successful Write of a record that
\* does not fit in what is left of the buffer delivers bytes to the destination
\* within the call, nothing being lost or reordered.
C35_WriteStaysWithinCapacity ==
    [][Called("Write") =>
          /\ last'.buf <= BufSize
          /\ Buffered(w') <= BufSize
          /\ (~last'.err /\
               Buffered(w) + Len(Encoding(cfg, last'.arg)) > BufSize) =>
                 /\ Len(w'.out) > Len(w.out)
                 /\ Accepted(w') = Accepted(w) \o Encoding(cfg, last'.arg)]_vars

C35_Witness ==
    /\ last.ops = <<"Write">> /\ ~last.err /\ cfg = NewWriterCfg
    /\ last.arg = <<Val(<<97, 98, 99>>)>>
    /\ last.buf = 6 - BufSize /\ last.buf <= BufSize
    /\ w.out = SubSeq(<<DQuote, 97, 98, 99, DQuote, LF>>, 1, BufSize)
    /\ w.buf = SubSeq(<<DQuote, 97, 98, 99, DQuote, LF>>, BufSize + 1, 6)

\* C36: in every reachable state of an export the bytes the destination has
\* received, and with them the bytes still pending in the sink, are a prefix
\* of the header line (if enabled) followed by the encodings of all rows of
\* the result set in order; a step only ever appends to the destination.
C36_DestinationIsPrefix ==
    /\ [](IsPrefix(w.out, ExpectedOutput) /\ IsPrefix(Accepted(w), ExpectedOutput))
    /\ [][IsPrefix(w.out, w'.out)]_vars

C36_Witness ==
    /\ Running /\ rowsWritten = 2 /\ sends = 3 /\ Len(source) = 2
    /\ w.out # <<>> /\ w.out # ExpectedOutput /\ w.buf # <<>>
    /\ IsPrefix(w.out, ExpectedOutput)

\* C34: a task that is about to send on a channel, or to close one, finds it
\* open; the row channel is closed by the producer only, once, after its last
\* send; quitChan and goChan are closed by main only, once, when the consumer
\* has left its loop and the producer has delivered its completion signal.
C34_NoSendOnClosedNoDoubleClose ==
    /\ [] /\ p \in {"sendHeader", "sendRow", "closeData"} => ~dataClosed
          /\ p = "sendQuit" => ~quitClosed
          /\ c = "sendGo" => ~goClosed
          /\ c = "closeChans" => (~quitClosed /\ ~goClosed /\ p = "done" /\ dataClosed)
          /\ (quitClosed \/ goClosed) =>
                (p = "done" /\ dataClosed /\ c \in {"report", "done"})
    /\ [][ /\ (dataClosed' # dataClosed) =>
                (p = "closeData" /\ p' = "sendQuit" /\ ~dataClosed /\ sends = acks)
           /\ (quitClosed' # quitClosed \/ goClosed' # goClosed) =>
                (c = "closeChans" /\ c' = "report" /\ ~quitClosed /\ ~goClosed)
           /\ (sends' # sends) => ~dataClosed
           /\ (acks' # acks) => ~goClosed
           /\ (p = "sendQuit" /\ p' = "done") => ~quitClosed ]_vars

C34_Witness ==
    /\ proc = "exit0" /\ dataClosed /\ quitClosed /\ goClosed
    /\ sends = 3 /\ acks = 3 /\ p = "done" /\ c = "done"

\* C37: under the default configuration no record other than the one written
\* has the line the destination received: two records that differ in the
\* number of fields, in a null flag or in a byte have different encodings.
C37_DefaultEncodingInjective ==
    (Encoded /\ cfg = NewWriterCfg) =>
        \A other \in EncRecords \ {Rec} : Encoding(NewWriterCfg, other) # w.out

C37_Witness ==
    /\ Encoded /\ cfg = NewWriterCfg /\ Rec = <<Null>>
    /\ w.out = <<Backslash, CharN, LF>>
    /\ Encoding(NewWriterCfg, <<Val(<<>>)>>) = <<DQuote, DQuote, LF>>
    /\ Encoding(NewWriterCfg, <<>>) = <<LF>>

\* The substitution rules in the order of the switch, and the first of them
\* that matches a content byte (0 when none does).
RuleMatches(k, config, f) ==
    CASE k = 1 -> <<f>> = config.Delimiter
      [] k = 2 -> <<f>> = config.Quote
      [] k = 3 -> <<f>> = config.Escape
      [] k = 4 -> f = NUL
      [] k = 5 -> f = LF

RuleBytes(k, config, f) ==
    CASE k = 0 -> <<f>>
      [] k = 1 -> IF config.Quote = <<>> THEN config.Escape \o <<f>> ELSE <<f>>
      [] k = 2 -> config.Escape \o config.Quote
      [] k = 3 -> config.Escape \o config.Escape
      [] k = 4 -> config.Escape \o <<Char0>>
      [] k = 5 -> config.Escape \o <<LF>>

FirstMatch(config, f) ==
    IF \E k \in 1..5 : RuleMatches(k, config, f)
    THEN CHOOSE k \in 1..5 :
            /\ RuleMatches(k, config, f)
            /\ \A j \in 1..(k - 1) : ~RuleMatches(j, config, f)
    ELSE 0

RECURSIVE FirstMatchContent(_, _, _)
FirstMatchContent(config, bytes, i) ==
    IF i > Len(bytes) THEN <<>>
    ELSE RuleBytes(FirstMatch(config, bytes[i]), config, bytes[i])
         \o FirstMatchContent(config, bytes, i + 1)

RECURSIVE FirstMatchLine(_, _, _)
FirstMatchLine(config, record, i) ==
    IF i > Len(record) THEN config.Terminator
    ELSE (IF i > 1 THEN config.Delimiter ELSE <<>>)
         \o (IF record[i].isNull THEN config.Escape \o <<CharN>>
             ELSE config.Quote \o FirstMatchContent(config, record[i].bytes, 1)
                  \o config.Quote)
         \o FirstMatchLine(config, record, i + 1)

SymbolsCoincide(config) ==
    \/ config.Delimiter = config.Quote
    \/ config.Delimiter = config.Escape
    \/ config.Quote = config.Escape

\* C38: when two of the symbols are equal, every content byte is written by
\* the first rule that matches it in the order delimiter, quote, escape, NUL,
\* line feed, and by that rule alone; with quoting enabled a byte equal to the
\* delimiter and to the escape symbol is written as it is, one byte.
C38_FirstMatchingRuleOnly ==
    (Encoded /\ SymbolsCoincide(cfg)) =>
        /\ w.out = FirstMatchLine(cfg, Rec, 1)
        /\ (cfg.Quote # <<>> /\ cfg.Delimiter = cfg.Escape) =>
               \A f \in Alphabet :
                  <<f>> = cfg.Delimiter => ByteImage(cfg, f) = <<f>>

C38_Witness ==
    /\ Encoded /\ cfg.Delimiter = cfg.Escape /\ cfg.Quote = <<DQuote>>
    /\ Rec = <<Val(<<97, Backslash>>)>>
    /\ w.out = <<DQuote, 97, Backslash, DQuote, LF>>

\* A symbol flag that is not one character: an empty or longer delimiter or
\* escape, a quote of more than one byte.
InvalidSymbols ==
    \/ Len(flags.csvDelimiter) # 1 /\ flags.csvDelimiter # <<Backslash, 116>>
    \/ Len(flags.csvEscape) # 1
    \/ Len(flags.csvQuote) > 1

\* C31 as stated: when the delimiter, quote or escape given is not exactly one
\* character, the process ends at configuration time: the connection is not
\* attempted, the query is not run, no row is fetched and no byte is written.
C31_InvalidSymbolsRejected ==
    InvalidSymbols =>
        /\ proc \in {"config", "exit1"}
        /\ p = "query" /\ cursor = 0 /\ sends = 0
        /\ Accepted(w) = <<>>

\* The bytes a terminator text stands for.
TerminatorBytes(text) ==
    CASE text = <<92, 110>> -> <<10>>
      [] text = <<92, 114, 92, 110>> -> <<13, 10>>
      [] OTHER -> text

\* C32: once the writer is configured its terminator is LF for the text
\* backslash-n, CR LF for the text backslash-r backslash-n and the text
\* itself otherwise, and those are the bytes every line of a finished export
\* ends with.
C32_TerminatorLiterals ==
    /\ proc # "config" => cfg.Terminator = TerminatorBytes(flags.csvTerminator)
    /\ proc = "exit0" =>
          LET conf == [cfg EXCEPT !.Terminator = TerminatorBytes(flags.csvTerminator)]
          IN  w.out = (IF csvHeader
                       THEN Encoding(conf, [i \in 1 .. Len(Cols) |-> Val(Cols[i])])
                       ELSE <<>>)
                      \o EncodeRows(conf, source, 1)

C32_Witness ==
    /\ proc = "exit0" /\ ~csvHeader /\ source = << <<Val(<<97>>), Null>> >>
    /\ flags.csvTerminator = <<Backslash, 114, Backslash, 110>>
    /\ flags.csvDelimiter = <<Backslash, 116>>
    /\ w.out = <<DQuote, 97, DQuote, 9, Backslash, CharN, 13, LF>>

=============================================================================
